---- MODULE Spec2Model ----
(***************************************************************************)
(* CF-Clearance-Server (src/cf_clearance.py): the /solve and /result       *)
(* handlers, the spawned solve_cloudflare_task coroutines and the          *)
(* cleanup_tasks sweeper, interleaved on one asyncio event loop.  A step   *)
(* of the model is one run of a coroutine from one await to the next.      *)
(***************************************************************************)
EXTENDS Integers, Sequences, FiniteSets, TLC

\* ---------------------------------------------------------------- bounds
\* Number of task ids uuid4 may hand out in one behaviour.
NumTasks == 2
\* Number of clock advances in one behaviour.
MaxTicks == 1
\* --max-tasks (default 10): the configured cap, kept small.
max_concurrent_tasks == 1
\* Most elements one find_all() returns.
MaxElements == 2
\* Most seconds one browser call or one sleep overruns.
MaxDelay == 1

\* ------------------------------------------------------ program constants
SweepPeriod == 3600
Retention == 86400
DefaultTimeout == 60
MaxTimeout == 120
PollInterval == 1
ClickSettle == 2

\* ------------------------------------------------------------ data values
\* Strings the code inspects are tuples of characters ("" is << >>).
\* Optional[x]: None is the empty tuple, a present value v is <<v>>.
None == << >>
Some(v) == << v >>

TaskIds == 1 .. NumTasks

\* Python dict as a function on its key set.
EmptyDict == << >>
DictSet(d, k, v) == [x \in (DOMAIN d) \cup {k} |-> IF x = k THEN v ELSE d[x]]
DictDel(d, k) == [x \in (DOMAIN d) \ {k} |-> d[x]]
DictLen(d) == Cardinality(DOMAIN d)

\* str.startswith on strings held as tuples of characters.
StartsWith(s, prefix) ==
    /\ Len(s) >= Len(prefix)
    /\ SubSeq(s, 1, Len(prefix)) = prefix

SchemeHttp == << "h", "t", "t", "p", ":", "/", "/" >>
SchemeHttps == << "h", "t", "t", "p", "s", ":", "/", "/" >>
SchemeSocks4 == << "s", "o", "c", "k", "s", "4", ":", "/", "/" >>
SchemeSocks5 == << "s", "o", "c", "k", "s", "5", ":", "/", "/" >>

\* Python truthiness of an Optional[str]: neither None nor the empty string.
Truthy(opt) == opt # None /\ opt[1] # << >>

VARIABLES
    pc,             \* per task id: where its solve_cloudflare_task coroutine is
    kwargs,         \* per task id: the coroutine's arguments it still reads
    start_time,     \* per task id: solve_cloudflare_task's local start_time
    solver_start,   \* per task id: solve_cloudflare's local start_time
    submitted_at,   \* per task id: time.time() when /solve accepted it (history)
    task_results,   \* the global dict task_results
    active_solvers, \* the global dict active_solvers
    now,            \* time.time()
    sweeper_wake,   \* when cleanup_tasks' asyncio.sleep(3600) is over
    cleanup_logged, \* the count cleanup_tasks logs at the end of its cycle
    response        \* the response of the handler that just ran

\* One call of CloudflareSolver.solve_cloudflare, step by step.
VARIABLES
    resolver_pc,      \* the await solve_cloudflare is suspended at
    self_timeout,     \* self._timeout
    resolver_start,   \* its local start_time
    start_wait,       \* its local start_wait
    all_cookies,      \* its local all_cookies
    clearance_cookie, \* its local clearance_cookie
    buttons,          \* elements of `buttons` the for loop has yet to reach
    checkboxes,       \* elements of `checkboxes` the for loop has yet to reach
    resolver_result,  \* the dict it returned
    browser_cookies,  \* what driver.cookies.get_all() reports
    raised,           \* the browser calls that raised so far (history)
    visited           \* the awaits it was suspended at so far (history)

resolver_vars == << resolver_pc, self_timeout, resolver_start, start_wait,
                    all_cookies, clearance_cookie, buttons, checkboxes,
                    resolver_result, browser_cookies, raised, visited >>

server_vars == << pc, kwargs, start_time, solver_start, submitted_at,
                  task_results, active_solvers, sweeper_wake, cleanup_logged,
                  response >>

vars == << pc, kwargs, start_time, solver_start, submitted_at, task_results,
           active_solvers, now, sweeper_wake, cleanup_logged, response,
           resolver_vars >>

\* ---------------------------------------------------------------- inputs
Urls == { None, Some(<< >>), Some(<< "u" >>) }

Proxies ==
    { None, Some(<< >>),
      Some(SchemeHttp \o << "x" >>), Some(SchemeHttps \o << "x" >>),
      Some(SchemeSocks4 \o << "x" >>), Some(SchemeSocks5 \o << "x" >>),
      Some(<< "f", "t", "p", ":", "/", "/", "x" >>),
      Some(<< "h", "t", "t", "p", ":", "/" >>),
      Some(<< "x" >> \o SchemeHttp) }

UserAgents == { None, Some(<< "a" >>) }

Timeouts == { None, Some(MaxTimeout + 1) }

\* Every value of ?timeout= from below zero to above the clamp, and none.
AllTimeouts == { None } \cup { Some(n) : n \in -1 .. MaxTimeout + 1 }

\* Every query string over these values.
AllSolveArgs ==
    [url : Urls, proxy : Proxies, user_agent : UserAgents, timeout : Timeouts]

\* The query strings sent to /solve: a plain request (a url and nothing
\* else) with one parameter varied over all its values.
PlainArgs ==
    [url |-> Some(<< "u" >>), proxy |-> None, user_agent |-> None, timeout |-> None]

SolveArgs ==
    { args \in AllSolveArgs :
        Cardinality({ k \in DOMAIN args : args[k] # PlainArgs[k] }) <= 1 }

\* The ids sent to /result: none, an id never issued (0), the task ids.
ResultIds == { None } \cup { Some(i) : i \in 0 .. NumTasks }

NoResponse == [op |-> "none"]

\* A handler's response and the sweeper's log line are outputs of the step
\* that just ran; Emit sends them, and only then does the loop run the next
\* step (no handler and no sweeper cycle awaits anything in between).
Quiet == response = NoResponse /\ cleanup_logged = None

Emit ==
    /\ ~Quiet
    /\ UNCHANGED resolver_vars
    /\ response' = NoResponse
    /\ cleanup_logged' = None
    /\ UNCHANGED << pc, kwargs, start_time, solver_start, submitted_at,
                    task_results, active_solvers, now, sweeper_wake >>

\* ------------------------------------------------------------------ Init
\* No call of solve_cloudflare is followed step by step.
ResolverOff ==
    /\ resolver_pc = "off"
    /\ self_timeout = None
    /\ resolver_start = None
    /\ start_wait = None
    /\ all_cookies = None
    /\ clearance_cookie = None
    /\ buttons = 0
    /\ checkboxes = 0
    /\ resolver_result = None
    /\ browser_cookies = << >>
    /\ raised = { }
    /\ visited = { }

ServerInit ==
    /\ pc = [t \in TaskIds |-> "idle"]
    /\ kwargs = [t \in TaskIds |-> None]
    /\ start_time = [t \in TaskIds |-> None]
    /\ solver_start = [t \in TaskIds |-> None]
    /\ submitted_at = [t \in TaskIds |-> None]
    /\ task_results = EmptyDict
    /\ active_solvers = EmptyDict
    /\ now = 0
    /\ sweeper_wake = SweepPeriod
    /\ cleanup_logged = None
    /\ response = NoResponse

Init == ServerInit /\ ResolverOff

\* ------------------------------------------------------------- GET /solve
\* solve() without its clamp.
ClampTimeout_DefaultOnly(timeout) ==
    IF timeout = None THEN DefaultTimeout ELSE timeout[1]

\* request.args.get('timeout', 60, type=int), then the clamp.
ClampTimeout(timeout) ==
    LET t == IF timeout = None THEN DefaultTimeout ELSE timeout[1]
    IN  IF t > MaxTimeout THEN MaxTimeout ELSE t

ValidProxyScheme(proxy) ==
    \/ StartsWith(proxy, SchemeHttp)
    \/ StartsWith(proxy, SchemeHttps)
    \/ StartsWith(proxy, SchemeSocks4)
    \/ StartsWith(proxy, SchemeSocks5)

\* solve() with the capacity check moved in front of the validation.
SolveDecision_CapacityFirst(args, n_active) ==
    IF n_active >= max_concurrent_tasks
    THEN [code |-> 429, error |-> "max tasks"]
    ELSE IF ~Truthy(args.url)
    THEN [code |-> 400, error |-> "URL parameter is required"]
    ELSE IF Truthy(args.proxy) /\ ~ValidProxyScheme(args.proxy[1])
    THEN [code |-> 400, error |-> "Invalid proxy format"]
    ELSE [code |-> 202]

\* What solve() decides for a query, given len(active_solvers): the status
\* code and, for an error, which of its three messages.
SolveDecision(args, n_active) ==
    IF ~Truthy(args.url)
    THEN [code |-> 400, error |-> "URL parameter is required"]
    ELSE IF Truthy(args.proxy) /\ ~ValidProxyScheme(args.proxy[1])
    THEN [code |-> 400, error |-> "Invalid proxy format"]
    ELSE IF n_active >= max_concurrent_tasks
    THEN [code |-> 429, error |-> "max tasks"]
    ELSE [code |-> 202]

\* str(uuid.uuid4()): an id not handed out before.
FreshIds == { t \in TaskIds : pc[t] = "idle" /\ \A u \in TaskIds : u < t => pc[u] # "idle" }

\* solve() creating the task before it validates the query.
Solve_SpawnBeforeChecks(args) ==
    LET decision == SolveDecision(args, DictLen(active_solvers))
        timeout == ClampTimeout(args.timeout)
    IN  /\ Quiet
        /\ UNCHANGED resolver_vars
        /\ \E task_id \in FreshIds :
              /\ pc' = [pc EXCEPT ![task_id] = "scheduled"]
              /\ kwargs' = [kwargs EXCEPT ![task_id] =
                               Some([user_agent |-> args.user_agent,
                                     timeout |-> timeout])]
              /\ submitted_at' = [submitted_at EXCEPT ![task_id] = Some(now)]
              /\ response' =
                    IF decision.code = 202
                    THEN [op |-> "solve", code |-> 202, status |-> "success",
                          task_id |-> task_id]
                    ELSE [op |-> "solve", code |-> decision.code,
                          status |-> "error", error |-> decision.error]
        /\ UNCHANGED << start_time, solver_start, task_results, active_solvers,
                        now, sweeper_wake, cleanup_logged >>

Solve(args) ==
    LET decision == SolveDecision(args, DictLen(active_solvers))
        timeout == ClampTimeout(args.timeout)
    IN  /\ Quiet
        /\ UNCHANGED resolver_vars
        /\ IF decision.code = 202
           THEN \E task_id \in FreshIds :
                  \* asyncio.create_task(solve_cloudflare_task(...)): the
                  \* coroutine is scheduled, none of it has run.
                  /\ pc' = [pc EXCEPT ![task_id] = "scheduled"]
                  /\ kwargs' = [kwargs EXCEPT ![task_id] =
                                   Some([user_agent |-> args.user_agent,
                                         timeout |-> timeout])]
                  /\ submitted_at' = [submitted_at EXCEPT ![task_id] = Some(now)]
                  /\ response' = [op |-> "solve", code |-> 202, status |-> "success",
                                  task_id |-> task_id]
           ELSE /\ response' = [op |-> "solve", code |-> decision.code,
                                 status |-> "error", error |-> decision.error]
                /\ UNCHANGED << pc, kwargs, submitted_at >>
        /\ UNCHANGED << start_time, solver_start, task_results, active_solvers,
                        now, sweeper_wake, cleanup_logged >>

\* ------------------------------------------------------------ GET /result
\* get_result() without its test for a processing entry.
ResultResponse_NoProcessingTest(id, results) ==
    IF id = None
    THEN [op |-> "result", code |-> 400, status |-> "error"]
    ELSE IF id[1] \notin DOMAIN results
    THEN [op |-> "result", code |-> 404, status |-> "error", id |-> id[1]]
    ELSE [op |-> "result", code |-> 200, body |-> results[id[1]], id |-> id[1]]

\* What get_result() answers for an id, given task_results.
ResultResponse(id, results) ==
    IF id = None
    THEN [op |-> "result", code |-> 400, status |-> "error"]
    ELSE IF id[1] \notin DOMAIN results
    THEN [op |-> "result", code |-> 404, status |-> "error", id |-> id[1]]
    ELSE IF results[id[1]].status = "processing"
    THEN [op |-> "result", code |-> 202, status |-> "processing", id |-> id[1]]
    ELSE [op |-> "result", code |-> 200, body |-> results[id[1]], id |-> id[1]]

GetResult(id) ==
    /\ Quiet
    /\ UNCHANGED resolver_vars
    /\ response' = ResultResponse(id, task_results)
    /\ UNCHANGED << pc, kwargs, start_time, solver_start, submitted_at,
                    task_results, active_solvers, now, sweeper_wake,
                    cleanup_logged >>

\* ------------------------------------------------------------ GET /status
\* status_counts[status] of get_status(), for one of its three keys.
StatusCount(results, status) ==
    Cardinality({ t \in DOMAIN results : results[t].status = status })

\* What get_status() answers, given task_results and active_solvers.
StatusResponse(results, solvers) ==
    [op |-> "status", code |-> 200, status |-> "online",
     active_tasks |-> DictLen(solvers),
     tasks_stats |-> [processing |-> StatusCount(results, "processing"),
                      success |-> StatusCount(results, "success"),
                      error |-> StatusCount(results, "error")],
     total_tasks |-> DictLen(results)]

GetStatus ==
    /\ Quiet
    /\ UNCHANGED resolver_vars
    /\ response' = StatusResponse(task_results, active_solvers)
    /\ UNCHANGED << pc, kwargs, start_time, solver_start, submitted_at,
                    task_results, active_solvers, now, sweeper_wake,
                    cleanup_logged >>

\* ----------------------------------------------- solve_cloudflare_task
\* The dict the task stores at its start.
ProcessingEntry(t_now) == [status |-> "processing", timestamp |-> t_now]

\* The except clause's dict without its elapsed_time.
ExceptEntry_NoElapsed(reason, t_start, t_now) ==
    [status |-> "error", reason |-> reason, timestamp |-> t_now]

\* The except clause's dict with the clock reading as its elapsed_time.
ExceptEntry_ElapsedIsClock(reason, t_start, t_now) ==
    [status |-> "error", reason |-> reason,
     elapsed_time |-> t_now, timestamp |-> t_now]

\* The dict of the task's except clause.
ExceptEntry(reason, t_start, t_now) ==
    [status |-> "error", reason |-> reason,
     elapsed_time |-> t_now - t_start, timestamp |-> t_now]

\* A finally clause that empties active_solvers.
FinallyRelease_All(solvers, task_id) == EmptyDict

\* A finally clause that leaves the entry in place.
FinallyRelease_Never(solvers, task_id) == solvers

\* The finally clause: if task_id in active_solvers: del active_solvers[task_id].
FinallyRelease(solvers, task_id) ==
    IF task_id \in DOMAIN solvers THEN DictDel(solvers, task_id) ELSE solvers

\* The coroutine is over ("done": it returned, "raised": an exception left
\* it): its locals are gone.
Finish(task_id, how) ==
    /\ pc' = [pc EXCEPT ![task_id] = how]
    /\ kwargs' = [kwargs EXCEPT ![task_id] = None]
    /\ start_time' = [start_time EXCEPT ![task_id] = None]
    /\ solver_start' = [solver_start EXCEPT ![task_id] = None]
    /\ submitted_at' = [submitted_at EXCEPT ![task_id] = None]

\* except Exception, then finally, from inside the try block.
ExceptAndFinally(task_id, reason) ==
    /\ task_results' = DictSet(task_results, task_id,
                               ExceptEntry(reason, start_time[task_id][1], now))
    /\ active_solvers' = FinallyRelease(active_solvers, task_id)
    /\ Finish(task_id, "done")

\* CloudflareSolver(timeout=timeout, ...): the object keeps the timeout.
CloudflareSolver(timeout) == [_timeout |-> timeout]

\* The first run of the coroutine, up to its first await (driver.start()).
\* get_chrome_user_agent() and the CloudflareSolver constructor each return
\* or raise.
TaskStart(task_id) ==
    /\ Quiet
    /\ UNCHANGED resolver_vars
    /\ pc[task_id] = "scheduled"
    /\ UNCHANGED << now, sweeper_wake, cleanup_logged, response >>
    /\ \E ua_raises \in IF Truthy(kwargs[task_id][1].user_agent)
                        THEN { FALSE } ELSE BOOLEAN,
          init_raises \in BOOLEAN :
         IF ua_raises
         THEN \* raised before the try: nothing catches it, the task dies
              /\ Finish(task_id, "raised")
              /\ UNCHANGED << task_results, active_solvers >>
         ELSE IF init_raises
         THEN \* processing stored, then the constructor raises
              /\ task_results' = DictSet(task_results, task_id,
                                         ExceptEntry("exception", now, now))
              /\ active_solvers' = FinallyRelease(active_solvers, task_id)
              /\ Finish(task_id, "done")
         ELSE /\ task_results' = DictSet(task_results, task_id, ProcessingEntry(now))
              /\ active_solvers' = DictSet(active_solvers, task_id,
                     CloudflareSolver(kwargs[task_id][1].timeout))
              /\ start_time' = [start_time EXCEPT ![task_id] = Some(now)]
              /\ pc' = [pc EXCEPT ![task_id] = "driver_start"]
              /\ kwargs' = [kwargs EXCEPT ![task_id] = None]
              /\ UNCHANGED << solver_start, submitted_at >>

\* await self.driver.start() is over: __aenter__ returns and solve_cloudflare
\* runs to its first await, or start() raised.
DriverStartReturn(task_id) ==
    /\ Quiet
    /\ UNCHANGED resolver_vars
    /\ pc[task_id] = "driver_start"
    /\ UNCHANGED << now, sweeper_wake, cleanup_logged, response >>
    /\ \E raises \in BOOLEAN :
         IF raises
         THEN ExceptAndFinally(task_id, "exception")
         ELSE /\ solver_start' = [solver_start EXCEPT ![task_id] = Some(now)]
              /\ pc' = [pc EXCEPT ![task_id] = "solve_cloudflare"]
              /\ UNCHANGED << kwargs, start_time, submitted_at, task_results,
                              active_solvers >>

\* The dicts solve_cloudflare returns.
SuccessResult(elapsed) ==
    [status |-> "success", elapsed_time |-> elapsed, cf_clearance |-> "v",
     user_agent |-> "browser-ua",
     all_cookies |-> << [name |-> "cf_clearance", value |-> "v"] >>]

FailureResult(reason, elapsed) ==
    [status |-> "error", reason |-> reason, elapsed_time |-> elapsed]

SolveCloudflareResults(elapsed) ==
    { SuccessResult(elapsed),
      FailureResult("Failed to retrieve cf_clearance cookie", elapsed),
      FailureResult("exception", elapsed) }

\* result["timestamp"] = time.time()
WithTimestamp(result, t_now) ==
    [k \in (DOMAIN result) \cup { "timestamp" } |->
        IF k = "timestamp" THEN t_now ELSE result[k]]

\* A task that gives up its slot when the resolver returns, before the
\* browser is stopped.
SolveCloudflareReturn_ReleasesFirst(task_id) ==
    /\ Quiet
    /\ UNCHANGED resolver_vars
    /\ pc[task_id] = "solve_cloudflare"
    /\ \E result \in SolveCloudflareResults(now - solver_start[task_id][1]) :
         task_results' = DictSet(task_results, task_id, WithTimestamp(result, now))
    /\ active_solvers' = FinallyRelease(active_solvers, task_id)
    /\ pc' = [pc EXCEPT ![task_id] = "driver_stop"]
    /\ solver_start' = [solver_start EXCEPT ![task_id] = None]
    /\ UNCHANGED << kwargs, start_time, submitted_at, now, sweeper_wake,
                    cleanup_logged, response >>

\* solve_cloudflare returned (it catches every Exception itself): the result
\* is stored and __aexit__ awaits driver.stop().
SolveCloudflareReturn(task_id) ==
    /\ Quiet
    /\ UNCHANGED resolver_vars
    /\ pc[task_id] = "solve_cloudflare"
    /\ \E result \in SolveCloudflareResults(now - solver_start[task_id][1]) :
         task_results' = DictSet(task_results, task_id, WithTimestamp(result, now))
    /\ pc' = [pc EXCEPT ![task_id] = "driver_stop"]
    /\ solver_start' = [solver_start EXCEPT ![task_id] = None]
    /\ UNCHANGED << kwargs, start_time, submitted_at, active_solvers, now,
                    sweeper_wake, cleanup_logged, response >>

\* await self.driver.stop() is over: the with block is left and finally runs,
\* or stop() raised and the except clause runs first.
DriverStopReturn(task_id) ==
    /\ Quiet
    /\ UNCHANGED resolver_vars
    /\ pc[task_id] = "driver_stop"
    /\ UNCHANGED << now, sweeper_wake, cleanup_logged, response >>
    /\ \E raises \in BOOLEAN :
         IF raises
         THEN ExceptAndFinally(task_id, "exception")
         ELSE /\ active_solvers' = FinallyRelease(active_solvers, task_id)
              /\ Finish(task_id, "done")
              /\ UNCHANGED task_results

\* ---------------------------------------------------------- cleanup_tasks
\* result.get("timestamp", 0)
Timestamp(result) == IF "timestamp" \in DOMAIN result THEN result.timestamp ELSE 0

\* A sweep that ignores the age of an entry.
KeysToDelete_AnyAge(results, t_now) == DOMAIN results

KeysToDelete(results, t_now) ==
    { task_id \in DOMAIN results : Timestamp(results[task_id]) < t_now - Retention }

\* One cycle of the loop, once its sleep is over; the next sleep begins.
Cleanup ==
    /\ Quiet
    /\ UNCHANGED resolver_vars
    /\ now >= sweeper_wake
    /\ LET keys_to_delete == KeysToDelete(task_results, now)
       IN  /\ task_results' = [k \in (DOMAIN task_results) \ keys_to_delete |->
                                  task_results[k]]
           /\ cleanup_logged' = Some(Cardinality(keys_to_delete))
    /\ sweeper_wake' = now + SweepPeriod
    /\ UNCHANGED << pc, kwargs, start_time, solver_start, submitted_at,
                    active_solvers, now, response >>

\* ------------------------------------------------------------------ time
\* Time passes between two steps of the loop: here a second more than the
\* retention window at a time.
Tick ==
    /\ Quiet
    /\ UNCHANGED resolver_vars
    /\ now < MaxTicks * (Retention + 1)
    /\ now' = now + Retention + 1
    /\ UNCHANGED << pc, kwargs, start_time, solver_start, submitted_at,
                    task_results, active_solvers, sweeper_wake, cleanup_logged,
                    response >>

\* ------------------------------------------------------------------ Spec
Next ==
    \/ \E args \in SolveArgs : Solve(args)
    \/ \E id \in ResultIds : GetResult(id)
    \/ GetStatus
    \/ \E task_id \in TaskIds : TaskStart(task_id)
    \/ \E task_id \in TaskIds : DriverStartReturn(task_id)
    \/ \E task_id \in TaskIds : SolveCloudflareReturn(task_id)
    \/ \E task_id \in TaskIds : DriverStopReturn(task_id)
    \/ Cleanup
    \/ Emit
    \/ Tick

Spec == Init /\ [][Next]_vars

\* ------------------------------------- CloudflareSolver.solve_cloudflare
\* One call followed from await to await, with its browser: the cookies the
\* browser holds change as the challenge is passed, each browser call returns
\* or raises and takes up to MaxDelay seconds, each sleep its length and up to
\* MaxDelay more.

\* The ?timeout= values of the calls followed.
ResolverTimeouts == { None, Some(0), Some(2), Some(MaxTimeout + 1) }

\* cookie.to_json() of the cookies the browser may hold.
OtherCookie == [name |-> "session", value |-> "s"]
ClearanceCookie(value) == [name |-> "cf_clearance", value |-> value]
ClearanceValues == { "v", "w" }

Delays == 0 .. MaxDelay

\* The browser calls that can raise, by the await they are made at.
BrowserCalls ==
    { "driver_get", "get_cookies", "poll", "find_buttons", "click_button",
      "find_checkboxes", "click_checkbox", "recheck", "get_user_agent" }

\* str(e) of the exception a browser call raises.
Description(call) == << "error in", call >>

\* extract_clearance_cookie: the first cookie named cf_clearance, or None.
RECURSIVE extract_clearance_cookie(_)
extract_clearance_cookie(cookies) ==
    IF cookies = << >> THEN None
    ELSE IF Head(cookies).name = "cf_clearance" THEN Some(Head(cookies))
    ELSE extract_clearance_cookie(Tail(cookies))

\* The success dict of solve_cloudflare.
ResolvedSuccess(elapsed_time, cookie, current_user_agent, cookies) ==
    [status |-> "success", elapsed_time |-> elapsed_time,
     cf_clearance |-> cookie.value, user_agent |-> current_user_agent,
     all_cookies |-> cookies]

ResolverInit ==
    /\ ServerInit
    /\ resolver_pc = "driver_get"
    /\ self_timeout \in { Some(ClampTimeout(timeout)) : timeout \in ResolverTimeouts }
    /\ resolver_start = Some(now)
    /\ start_wait = None
    /\ all_cookies = None
    /\ clearance_cookie = None
    /\ buttons = 0
    /\ checkboxes = 0
    /\ resolver_result = None
    /\ browser_cookies = << OtherCookie >>
    /\ raised = { }
    /\ visited = { "driver_get" }

\* The call is suspended at the await named to.
Suspend(to) ==
    /\ resolver_pc' = to
    /\ visited' = visited \cup { to }

\* return of a dict: the call is over.
Return(result) ==
    /\ resolver_pc' = "returned"
    /\ resolver_result' = Some(result)
    /\ UNCHANGED visited

\* The outer except clause, with the clock at t_now.
OuterExcept(call, t_now) ==
    /\ raised' = raised \cup { call }
    /\ Return(FailureResult(Description(call), t_now - resolver_start[1]))

\* The except clause around the interaction: it logs, and the call goes on
\* to the user agent.
InteractionExcept(call) ==
    /\ raised' = raised \cup { call }
    /\ Suspend("get_user_agent")
    /\ UNCHANGED resolver_result

\* A loop that goes on sleeping after the cookie was read.
AfterCookies_IgnoresCookie(cookie, t_wait, t_now) ==
    IF t_now - t_wait < self_timeout[1] THEN "sleep"
    ELSE IF cookie # None THEN "get_user_agent"
    ELSE "find_buttons"

\* A loop that gives up a second before the timeout.
AfterCookies_OneSecondShort(cookie, t_wait, t_now) ==
    IF cookie # None THEN "get_user_agent"
    ELSE IF t_now - t_wait < self_timeout[1] - 1 THEN "sleep"
    ELSE "find_buttons"

\* Where the while loop goes with these cookies and this clock: out of it to
\* the user agent when the cookie is there, to the next sleep while the
\* timeout has not passed, else to the interaction.
AfterCookies(cookie, t_wait, t_now) ==
    IF cookie # None THEN "get_user_agent"
    ELSE IF t_now - t_wait < self_timeout[1] THEN "sleep"
    ELSE "find_buttons"

\* await self.driver.get(url) is over.
DriverGetReturn ==
    /\ resolver_pc = "driver_get"
    /\ \E d \in Delays, raises \in BOOLEAN :
         /\ now' = now + d
         /\ IF raises
            THEN OuterExcept("driver_get", now')
            ELSE /\ Suspend("get_cookies")
                 /\ UNCHANGED << raised, resolver_result >>
    /\ UNCHANGED << server_vars, self_timeout, resolver_start, start_wait,
                    all_cookies, clearance_cookie, buttons, checkboxes,
                    browser_cookies >>

\* The cookie read on arrival is over; without the cookie the wait begins.
GetCookiesReturn ==
    /\ resolver_pc = "get_cookies"
    /\ \E d \in Delays, raises \in BOOLEAN :
         /\ now' = now + d
         /\ IF raises
            THEN /\ OuterExcept("get_cookies", now')
                 /\ UNCHANGED << all_cookies, clearance_cookie, start_wait >>
            ELSE LET cookie == extract_clearance_cookie(browser_cookies)
                 IN  /\ all_cookies' = Some(browser_cookies)
                     /\ clearance_cookie' = cookie
                     /\ start_wait' = IF cookie = None THEN Some(now') ELSE start_wait
                     /\ Suspend(AfterCookies(cookie, now', now'))
                     /\ UNCHANGED << raised, resolver_result >>
    /\ UNCHANGED << server_vars, self_timeout, resolver_start, buttons,
                    checkboxes, browser_cookies >>

\* await asyncio.sleep(1) is over.
SleepReturn ==
    /\ resolver_pc = "sleep"
    /\ \E d \in Delays : now' = now + PollInterval + d
    /\ Suspend("poll")
    /\ UNCHANGED << server_vars, self_timeout, resolver_start, start_wait,
                    all_cookies, clearance_cookie, buttons, checkboxes,
                    resolver_result, browser_cookies, raised >>

\* The cookie read of one poll is over.
PollReturn ==
    /\ resolver_pc = "poll"
    /\ \E d \in Delays, raises \in BOOLEAN :
         /\ now' = now + d
         /\ IF raises
            THEN /\ OuterExcept("poll", now')
                 /\ UNCHANGED << all_cookies, clearance_cookie >>
            ELSE LET cookie == extract_clearance_cookie(browser_cookies)
                 IN  /\ all_cookies' = Some(browser_cookies)
                     /\ clearance_cookie' = cookie
                     /\ Suspend(AfterCookies(cookie, start_wait[1], now'))
                     /\ UNCHANGED << raised, resolver_result >>
    /\ UNCHANGED << server_vars, self_timeout, resolver_start, start_wait,
                    buttons, checkboxes, browser_cookies >>

\* Where the for loops go with this many buttons and checkboxes left.
NextButton(n) == IF n > 0 THEN "click_button" ELSE "find_checkboxes"
NextCheckbox(n) == IF n > 0 THEN "click_checkbox" ELSE "recheck"

\* find_all("button") is over.
FindButtonsReturn ==
    /\ resolver_pc = "find_buttons"
    /\ \E d \in Delays, raises \in BOOLEAN, n \in 0 .. MaxElements :
         /\ now' = now + d
         /\ IF raises
            THEN InteractionExcept("find_buttons") /\ UNCHANGED buttons
            ELSE /\ buttons' = n
                 /\ Suspend(NextButton(n))
                 /\ UNCHANGED << raised, resolver_result >>
    /\ UNCHANGED << server_vars, self_timeout, resolver_start, start_wait,
                    all_cookies, clearance_cookie, checkboxes, browser_cookies >>

\* button.mouse_click() is over: the sleep follows, or it raised and the
\* loop goes to the next button.
ClickButtonReturn ==
    /\ resolver_pc = "click_button"
    /\ \E d \in Delays, raises \in BOOLEAN :
         /\ now' = now + d
         /\ IF raises
            THEN /\ raised' = raised \cup { "click_button" }
                 /\ buttons' = buttons - 1
                 /\ Suspend(NextButton(buttons - 1))
            ELSE /\ Suspend("sleep_button")
                 /\ UNCHANGED << raised, buttons >>
    /\ UNCHANGED << server_vars, self_timeout, resolver_start, start_wait,
                    all_cookies, clearance_cookie, checkboxes, resolver_result,
                    browser_cookies >>

\* await asyncio.sleep(2) after a button is over.
SleepButtonReturn ==
    /\ resolver_pc = "sleep_button"
    /\ \E d \in Delays : now' = now + ClickSettle + d
    /\ buttons' = buttons - 1
    /\ Suspend(NextButton(buttons - 1))
    /\ UNCHANGED << server_vars, self_timeout, resolver_start, start_wait,
                    all_cookies, clearance_cookie, checkboxes, resolver_result,
                    browser_cookies, raised >>

\* find_all("input[type=checkbox]") is over.
FindCheckboxesReturn ==
    /\ resolver_pc = "find_checkboxes"
    /\ \E d \in Delays, raises \in BOOLEAN, n \in 0 .. MaxElements :
         /\ now' = now + d
         /\ IF raises
            THEN InteractionExcept("find_checkboxes") /\ UNCHANGED checkboxes
            ELSE /\ checkboxes' = n
                 /\ Suspend(NextCheckbox(n))
                 /\ UNCHANGED << raised, resolver_result >>
    /\ UNCHANGED << server_vars, self_timeout, resolver_start, start_wait,
                    all_cookies, clearance_cookie, buttons, browser_cookies >>

ClickCheckboxReturn ==
    /\ resolver_pc = "click_checkbox"
    /\ \E d \in Delays, raises \in BOOLEAN :
         /\ now' = now + d
         /\ IF raises
            THEN /\ raised' = raised \cup { "click_checkbox" }
                 /\ checkboxes' = checkboxes - 1
                 /\ Suspend(NextCheckbox(checkboxes - 1))
            ELSE /\ Suspend("sleep_checkbox")
                 /\ UNCHANGED << raised, checkboxes >>
    /\ UNCHANGED << server_vars, self_timeout, resolver_start, start_wait,
                    all_cookies, clearance_cookie, buttons, resolver_result,
                    browser_cookies >>

SleepCheckboxReturn ==
    /\ resolver_pc = "sleep_checkbox"
    /\ \E d \in Delays : now' = now + ClickSettle + d
    /\ checkboxes' = checkboxes - 1
    /\ Suspend(NextCheckbox(checkboxes - 1))
    /\ UNCHANGED << server_vars, self_timeout, resolver_start, start_wait,
                    all_cookies, clearance_cookie, buttons, resolver_result,
                    browser_cookies, raised >>

\* The cookie read after the interaction is over.
RecheckReturn ==
    /\ resolver_pc = "recheck"
    /\ \E d \in Delays, raises \in BOOLEAN :
         /\ now' = now + d
         /\ IF raises
            THEN /\ InteractionExcept("recheck")
                 /\ UNCHANGED << all_cookies, clearance_cookie >>
            ELSE /\ all_cookies' = Some(browser_cookies)
                 /\ clearance_cookie' = extract_clearance_cookie(browser_cookies)
                 /\ Suspend("get_user_agent")
                 /\ UNCHANGED << raised, resolver_result >>
    /\ UNCHANGED << server_vars, self_timeout, resolver_start, start_wait,
                    buttons, checkboxes, browser_cookies >>

\* A resolver that reports the failure whatever it read.
Outcome_AlwaysFailure(cookie, cookies, elapsed_time) ==
    FailureResult("Failed to retrieve cf_clearance cookie", elapsed_time)

\* A success dict that lists the cookies the browser holds at the return.
Outcome_CookiesOfBrowser(cookie, cookies, elapsed_time) ==
    IF cookie # None
    THEN ResolvedSuccess(elapsed_time, cookie[1], "browser-ua", browser_cookies)
    ELSE FailureResult("Failed to retrieve cf_clearance cookie", elapsed_time)

\* if clearance_cookie: the success dict, else the error dict.
Outcome(cookie, cookies, elapsed_time) ==
    IF cookie # None
    THEN ResolvedSuccess(elapsed_time, cookie[1], "browser-ua", cookies[1])
    ELSE FailureResult("Failed to retrieve cf_clearance cookie", elapsed_time)

\* get_user_agent() is over: one of the two dicts is returned.
GetUserAgentReturn ==
    /\ resolver_pc = "get_user_agent"
    /\ \E d \in Delays, raises \in BOOLEAN :
         /\ now' = now + d
         /\ IF raises
            THEN OuterExcept("get_user_agent", now')
            ELSE /\ Return(Outcome(clearance_cookie, all_cookies,
                                    now' - resolver_start[1]))
                 /\ UNCHANGED raised
    /\ UNCHANGED << server_vars, self_timeout, resolver_start, start_wait,
                    all_cookies, clearance_cookie, buttons, checkboxes,
                    browser_cookies >>

\* The page passes the challenge, or renews its cookie: the browser holds a
\* clearance cookie of another value than before.
ChallengePassed ==
    /\ resolver_pc \notin { "off", "returned" }
    /\ \E value \in ClearanceValues :
         /\ ClearanceCookie(value) # browser_cookies[Len(browser_cookies)]
         /\ browser_cookies' = << OtherCookie, ClearanceCookie(value) >>
    /\ UNCHANGED << server_vars, now, resolver_pc, self_timeout, resolver_start,
                    start_wait, all_cookies, clearance_cookie, buttons,
                    checkboxes, resolver_result, raised, visited >>

ResolverStep ==
    \/ DriverGetReturn
    \/ GetCookiesReturn
    \/ SleepReturn
    \/ PollReturn
    \/ FindButtonsReturn
    \/ ClickButtonReturn
    \/ SleepButtonReturn
    \/ FindCheckboxesReturn
    \/ ClickCheckboxReturn
    \/ SleepCheckboxReturn
    \/ RecheckReturn
    \/ GetUserAgentReturn

ResolverNext == ResolverStep \/ ChallengePassed

ResolverSpec == ResolverInit /\ [][ResolverNext]_vars

\* The loop resumes a coroutine whose await is over, and every browser call
\* and sleep comes to an end.
ResolverFairSpec == ResolverSpec /\ WF_vars(ResolverStep)

\* ================================================================ claims
Terminal(result) == result.status \in { "success", "error" }

ProcessingTasks ==
    { t \in DOMAIN task_results : task_results[t].status = "processing" }

\* Accepted by /solve and neither finished nor holding a terminal result.
NotCompleted ==
    { t \in TaskIds : pc[t] \in { "scheduled", "driver_start", "solve_cloudflare" } }

\* The run of t ends in this step: its resolver returns, or the coroutine
\* is over before its resolver ever returned.
RunEnds(t) ==
    /\ pc[t] \in { "scheduled", "driver_start", "solve_cloudflare" }
    /\ pc'[t] \in { "driver_stop", "done", "raised" }

\* C1. Admission bound: the number of tasks whose registry status is
\* processing never exceeds max_concurrent_tasks.
C1_AdmissionBound == Cardinality(ProcessingTasks) <= max_concurrent_tasks

\* C2. Capacity rejection: /solve never accepts a submission while
\* max_concurrent_tasks accepted tasks have not yet completed (it answers
\* 429, or 400 for an invalid query).
C2_CapacityRejection ==
    (response.op = "solve" /\ response.code = 202)
        => Cardinality(NotCompleted \ { response.task_id }) < max_concurrent_tasks

Finished(t) == pc[t] \in { "done", "raised" }

\* C3 as stated. Slot release on every path through the try block: every
\* step in which a run finishes through its finally clause removes that
\* task's entry from active_solvers.
C3_ReleasedOnEveryPath ==
    [][ \A t \in TaskIds :
          (pc[t] # "done" /\ pc'[t] = "done")
              => (t \in DOMAIN active_solvers /\ t \notin DOMAIN active_solvers') ]_vars

\* C3 as amended. A task enters active_solvers only in its first step, leaves
\* it only in the step in which its run finishes, a run that finishes while
\* holding an entry releases it in that step, and no finished run holds one:
\* every acquired slot is released exactly once. A run that finishes in its
\* first step (no default user agent, constructor raised) never held one.
C3_SlotRelease ==
    [][ \A t \in TaskIds :
          /\ (t \notin DOMAIN active_solvers /\ t \in DOMAIN active_solvers')
                => (pc[t] = "scheduled" /\ pc'[t] = "driver_start")
          /\ (t \in DOMAIN active_solvers /\ t \notin DOMAIN active_solvers')
                => (~Finished(t) /\ Finished(t)')
          /\ Finished(t)' => t \notin DOMAIN active_solvers'
          /\ pc'[t] = "scheduled" => pc[t] \in { "idle", "scheduled" }
          /\ Finished(t) => pc'[t] = pc[t] ]_vars

\* A run that held a slot through the resolver and the browser's stop has
\* finished and holds none, while another task still holds its own.
C3_Witness ==
    \E t \in TaskIds, u \in TaskIds :
        /\ pc[t] = "done" /\ t \in DOMAIN task_results
        /\ task_results[t].status = "success"
        /\ t \notin DOMAIN active_solvers
        /\ u \in DOMAIN active_solvers

\* C4. Every accepted task ends with a terminal entry: in the step in which a
\* run ends, the registry holds a success or error entry for it.
C4_AcceptedEndsTerminal ==
    [][ \A t \in TaskIds :
          RunEnds(t) => (t \in DOMAIN task_results' /\ Terminal(task_results'[t])) ]_vars

\* C5. A terminal entry is immutable: no step changes the entry of a task
\* whose status is success or error (the sweeper may remove it).
C5_TerminalImmutable ==
    [][ \A t \in DOMAIN task_results :
          (Terminal(task_results[t]) /\ t \in DOMAIN task_results')
              => task_results'[t] = task_results[t] ]_vars

\* C6. Status/result consistency: a processing entry carries no result
\* field, a success entry exactly the success fields, an error entry exactly
\* the error fields (each beside status and the timestamp).
C6_StatusResultConsistency ==
    \A t \in DOMAIN task_results :
        LET r == task_results[t]
        IN  /\ r.status \in { "processing", "success", "error" }
            /\ r.status = "processing" => DOMAIN r = { "status", "timestamp" }
            /\ r.status = "success" =>
                 DOMAIN r = { "status", "timestamp", "elapsed_time",
                              "cf_clearance", "user_agent", "all_cookies" }
            /\ r.status = "error" =>
                 DOMAIN r = { "status", "timestamp", "reason", "elapsed_time" }

\* The registry holds a success entry, and an error entry written by the
\* task's except clause after the browser failed to start.
C6_Witness ==
    \E t \in DOMAIN task_results, u \in DOMAIN task_results :
        /\ task_results[t].status = "success"
        /\ task_results[u].status = "error"
        /\ task_results[u].reason = "exception"
        /\ u \notin DOMAIN active_solvers /\ pc[u] = "done"

\* C7. Eviction safety: no step removes a registry entry whose status is
\* processing.
C7_NoInFlightEviction ==
    [][ \A t \in DOMAIN task_results :
          task_results[t].status = "processing" => t \in DOMAIN task_results' ]_vars

\* C8. Eviction completeness: a sweeper cycle removes every terminal entry
\* stamped before now - 24h, removes no terminal entry stamped later, changes
\* no entry it keeps, and logs the number of entries it removed.
C8_EvictionCompleteness ==
    [][ sweeper_wake' # sweeper_wake =>
          LET removed == (DOMAIN task_results) \ (DOMAIN task_results')
          IN  /\ DOMAIN task_results' \subseteq DOMAIN task_results
              /\ \A t \in DOMAIN task_results' : task_results'[t] = task_results[t]
              /\ \A t \in DOMAIN task_results :
                   Terminal(task_results[t]) =>
                     (t \in removed <=> task_results[t].timestamp < now - Retention)
              /\ cleanup_logged' = Some(Cardinality(removed)) ]_vars

\* A cycle has just removed one finished task's entry and kept the entry of
\* another finished task, completed at this very time.
C8_Witness ==
    /\ cleanup_logged = Some(1)
    /\ \E t \in TaskIds, u \in TaskIds :
         /\ pc[t] = "done" /\ t \notin DOMAIN task_results
         /\ pc[u] = "done" /\ u \in DOMAIN task_results
         /\ Terminal(task_results[u]) /\ task_results[u].timestamp = now

UrlMissing(args) == args.url \in { None, Some(<< >>) }

ProxyMalformed(args) ==
    args.proxy \in { Some(<< "f", "t", "p", ":", "/", "/", "x" >>),
                     Some(<< "h", "t", "t", "p", ":", "/" >>),
                     Some(<< "x", "h", "t", "t", "p", ":", "/", "/" >>) }

\* C10. Validation: whatever len(active_solvers) is, solve() answers 400
\* exactly for the queries with no url or a proxy of another scheme (so 400,
\* not 429, at capacity), and 202 for every other query below capacity; a
\* 400 or 429 just returned agrees with that.
C10_Validation ==
    /\ \A args \in AllSolveArgs :
         LET decision == SolveDecision(args, DictLen(active_solvers))
             invalid == UrlMissing(args) \/ ProxyMalformed(args)
         IN  /\ decision.code = 400 <=> invalid
             /\ (~invalid /\ DictLen(active_solvers) < max_concurrent_tasks)
                   => decision.code = 202
             /\ (~invalid /\ DictLen(active_solvers) >= max_concurrent_tasks)
                   => decision.code = 429
    /\ (response.op = "solve" /\ response.code = 429)
          => DictLen(active_solvers) >= max_concurrent_tasks
    /\ (response.op = "solve" /\ response.code = 202)
          => DictLen(active_solvers) < max_concurrent_tasks

\* /solve has just answered 400 for a malformed proxy while active_solvers
\* is full.
C10_Witness ==
    /\ response.op = "solve" /\ response.code = 400
    /\ response.error = "Invalid proxy format"
    /\ DictLen(active_solvers) >= max_concurrent_tasks

\* C11. A rejected submission changes nothing: a step in which /solve answers
\* 400 or 429 leaves task_results and active_solvers as they were and
\* schedules no task.
C11_RejectionChangesNothing ==
    [][ (response = NoResponse /\ response'.op = "solve"
            /\ response'.code \in { 400, 429 })
          => /\ task_results' = task_results
             /\ active_solvers' = active_solvers
             /\ pc' = pc
             /\ kwargs' = kwargs ]_vars

\* /solve has just answered 429 while a task holds the only slot, and 400
\* while the registry holds an entry.
C11_Witness ==
    /\ response.op = "solve" /\ response.code = 429
    /\ DictLen(active_solvers) = max_concurrent_tasks
    /\ task_results # EmptyDict

\* C12. /result is a read-only function of the registry: 400 without an id,
\* 404 for an id with no entry, 202 for a processing entry, 200 with the
\* stored dict for a success or error entry; the response just sent is that
\* function of the registry, and a step in which /result or /status answers
\* changes neither task_results nor active_solvers.
C12_ResultReadOnly ==
    /\ [](\A id \in ResultIds :
            LET r == ResultResponse(id, task_results)
            IN  /\ id = None => r.code = 400
                /\ (id # None /\ id[1] \notin DOMAIN task_results) => r.code = 404
                /\ (id # None /\ id[1] \in DOMAIN task_results) =>
                     IF task_results[id[1]].status = "processing"
                     THEN r.code = 202 /\ r.status = "processing"
                     ELSE /\ task_results[id[1]].status \in { "success", "error" }
                          /\ r.code = 200
                          /\ r.body = task_results[id[1]])
    /\ [](response.op = "result" =>
            \E id \in ResultIds : response = ResultResponse(id, task_results))
    /\ [][ (response = NoResponse /\ response'.op \in { "result", "status" })
             => /\ task_results' = task_results
                /\ active_solvers' = active_solvers
                /\ pc' = pc ]_vars

\* /result has just answered 200 with a stored success dict, and the registry
\* also holds a processing entry.
C12_Witness ==
    /\ response.op = "result" /\ response.code = 200
    /\ response.body.status = "success"
    /\ ProcessingTasks # { }

\* C13. Timeout clamping: solve() turns a requested timeout into the smaller
\* of it and 120, and into 60 when none is given; the timeout of every
\* scheduled task and of every CloudflareSolver is such a value, never above
\* 120, and the solver is constructed with the timeout its task was given.
C13_TimeoutClamp ==
    /\ [](\A timeout \in AllTimeouts :
            ClampTimeout(timeout) =
                IF timeout = None THEN 60
                ELSE IF timeout[1] <= 120 THEN timeout[1] ELSE 120)
    /\ [](\A t \in TaskIds :
            /\ kwargs[t] # None => kwargs[t][1].timeout \in { 60, 120 }
            /\ t \in DOMAIN active_solvers =>
                 active_solvers[t]._timeout \in { 60, 120 })
    /\ [][ \A t \in TaskIds :
             (t \notin DOMAIN active_solvers /\ t \in DOMAIN active_solvers')
                => active_solvers'[t]._timeout = kwargs[t][1].timeout ]_vars

\* One solver runs with the clamped timeout (121 was requested), another
\* with the default.
C13_Witness ==
    \E t \in DOMAIN active_solvers, u \in DOMAIN active_solvers :
        active_solvers[t]._timeout = 120 /\ active_solvers[u]._timeout = 60

\* A terminal entry for t is recorded in this step.
Recorded(t) ==
    /\ t \in DOMAIN task_results'
    /\ Terminal(task_results'[t])
    /\ (t \in DOMAIN task_results => task_results'[t] # task_results[t])

\* C14 as stated. Monotonic timing: the elapsed_time of a terminal result is
\* non-negative and at least the time between the task's acceptance by /solve
\* and the recording of that result.
C14_MonotonicTiming ==
    [][ \A t \in TaskIds :
          (Recorded(t) /\ submitted_at[t] # None)
             => /\ task_results'[t].elapsed_time >= 0
                /\ task_results'[t].elapsed_time >= now - submitted_at[t][1] ]_vars

\* C14 as amended. elapsed_time is non-negative and is the time since the
\* producer of the result started: since solve_cloudflare was entered for a
\* result of the resolver, since the task's first step for a result of the
\* task's except clause; the time before that start is not in it.
C14_ElapsedSinceStart ==
    [][ \A t \in TaskIds :
          Recorded(t)
             => /\ task_results'[t].elapsed_time >= 0
                /\ pc[t] = "solve_cloudflare"
                     => task_results'[t].elapsed_time = now - solver_start[t][1]
                /\ pc[t] \in { "driver_start", "driver_stop" }
                     => task_results'[t].elapsed_time = now - start_time[t][1]
                /\ pc[t] = "scheduled" => task_results'[t].elapsed_time = 0
                /\ pc[t] \in { "scheduled", "driver_start", "solve_cloudflare",
                               "driver_stop" } ]_vars

\* The registry holds a resolver's result and an except clause's result, both
\* produced after time had passed since their start.
C14_Witness ==
    \E t \in DOMAIN task_results, u \in DOMAIN task_results :
        /\ task_results[t].status = "success" /\ task_results[t].elapsed_time > 0
        /\ task_results[u].status = "error" /\ task_results[u].reason = "exception"
        /\ pc[u] = "done" /\ task_results[u].elapsed_time > 0

\* C20 as stated. Ordering of a run's steps: in every state a task whose
\* entry is processing is in active_solvers, and a task whose entry is
\* success or error is not.
C20_SlotOnlyWhileProcessing ==
    \A t \in DOMAIN task_results :
        /\ task_results[t].status = "processing" => t \in DOMAIN active_solvers
        /\ Terminal(task_results[t]) => t \notin DOMAIN active_solvers

\* C20 as amended. A task whose entry is processing is in active_solvers (so
\* /status never reports more processing tasks than active ones); a task is
\* never released before its terminal entry was stored: a finished run holds
\* no slot and its entry, unless swept, is terminal; a task with a terminal
\* entry may still be in active_solvers, but only while its browser is being
\* stopped.
C20_UpdateBeforeRelease ==
    /\ \A t \in DOMAIN task_results :
         /\ task_results[t].status = "processing" => t \in DOMAIN active_solvers
         /\ (Terminal(task_results[t]) /\ t \in DOMAIN active_solvers)
               => pc[t] = "driver_stop"
    /\ \A t \in TaskIds :
         pc[t] = "done" =>
            /\ t \notin DOMAIN active_solvers
            /\ t \in DOMAIN task_results => Terminal(task_results[t])
    /\ response.op = "status" =>
         response.tasks_stats.processing <= response.active_tasks

\* /status has just reported an active task and no processing one: the
\* task's result is stored and its browser is being stopped.
C20_Witness ==
    /\ response.op = "status"
    /\ response.active_tasks = 1 /\ response.tasks_stats.processing = 0
    /\ \E t \in DOMAIN active_solvers :
         /\ pc[t] = "driver_stop"
         /\ t \in DOMAIN task_results /\ Terminal(task_results[t])

\* ------------------------------------------------ claims on the resolver
\* The awaits of the interaction: the enumerations, the clicks, their sleeps.
Interacting ==
    { "find_buttons", "click_button", "sleep_button",
      "find_checkboxes", "click_checkbox", "sleep_checkbox" }

\* The call is over and returned this dict.
Resolved(status) ==
    resolver_pc = "returned" /\ resolver_result[1].status = status

\* This step is one of the call, not of the page.
ResolverMoves == browser_cookies' = browser_cookies

\* C15. The resolver never propagates a fault: a step in which the
\* navigation, the cookie read on arrival, a poll, the final re-check or the
\* user-agent read raises ends the call with an error dict whose reason is
\* that exception's description, and a call whose navigation raised made no
\* other browser call and no sleep.
C15_FaultBecomesFailure ==
    [][ \A call \in { "driver_get", "get_cookies", "poll", "recheck",
                      "get_user_agent" } :
          (resolver_pc = call /\ raised' # raised)
             => /\ resolver_pc' = "returned"
                /\ resolver_result'[1].status = "error"
                /\ resolver_result'[1].reason = Description(call)
                /\ call = "driver_get" => visited' = { "driver_get" } ]_vars

\* C16. No interaction once the cookie is seen: from the read that found the
\* cookie on, the call only reads the user agent and returns; a call that
\* found it on arrival never slept, polled or interacted, a call that found it
\* in a poll never interacted; and such a call returns the success dict unless
\* the user-agent read raises.
C16_NoInteractionAfterCookie ==
    /\ clearance_cookie # None => resolver_pc \in { "get_user_agent", "returned" }
    /\ (clearance_cookie # None /\ start_wait = None)
          => visited \subseteq { "driver_get", "get_cookies", "get_user_agent" }
    /\ (clearance_cookie # None /\ "recheck" \notin visited)
          => visited \cap Interacting = { }
    /\ (resolver_pc = "returned" /\ clearance_cookie # None
            /\ "recheck" \notin visited /\ "get_user_agent" \notin raised)
          => /\ Resolved("success")
             /\ resolver_result[1].cf_clearance = clearance_cookie[1].value

\* The call found the cookie in a poll and returned the success dict without
\* any interaction.
C16_Witness ==
    /\ Resolved("success")
    /\ "poll" \in visited
    /\ visited \cap Interacting = { }

\* The browser never held the clearance cookie and no browser call raised.
NeverYieldsNeverRaises ==
    extract_clearance_cookie(browser_cookies) = None /\ raised = { }

\* C17. Timeout bound: when the browser never holds the cookie and no call
\* raises, the interaction and the return come only once self._timeout
\* seconds have passed since the call began, the call then returns the error
\* dict, after the interaction; a click is followed by a sleep of at least
\* 2 seconds, the interaction is never followed by another poll, and once
\* begun it always comes to the return.
C17_TimeoutBound ==
    /\ []((NeverYieldsNeverRaises
             /\ resolver_pc \in Interacting \cup { "recheck", "get_user_agent",
                                                   "returned" })
            => /\ now - resolver_start[1] >= self_timeout[1]
               /\ "find_buttons" \in visited
               /\ resolver_pc = "returned" => Resolved("error"))
    /\ [][ ResolverMoves =>
             /\ (resolver_pc \in Interacting \cup { "recheck", "get_user_agent" })
                  => resolver_pc' \notin { "sleep", "poll" }
             /\ (resolver_pc = "click_button" /\ raised' = { })
                  => resolver_pc' = "sleep_button"
             /\ (resolver_pc = "click_checkbox" /\ raised' = { })
                  => resolver_pc' = "sleep_checkbox"
             /\ (resolver_pc \in { "sleep_button", "sleep_checkbox" })
                  => now' >= now + 2 ]_vars
    /\ (resolver_pc = "find_buttons") ~> (resolver_pc = "returned")

\* A call with the clamped timeout of 120 seconds, against a browser that
\* never held the cookie, returned the error dict after clicking a button
\* and a checkbox.
C17_Witness ==
    /\ NeverYieldsNeverRaises
    /\ Resolved("error")
    /\ self_timeout = Some(120)
    /\ { "sleep_button", "sleep_checkbox", "recheck" } \subseteq visited

\* C18. The interaction is failure-tolerant: whatever raises in it, a call
\* that began it also enumerated the checkboxes and re-read the cookies before
\* it read the user agent, and a re-read that returns leaves the cookie the
\* browser holds in clearance_cookie.
C18_SweepFailureTolerant ==
    /\ []((resolver_pc \in { "get_user_agent", "returned" }
             /\ "find_buttons" \in visited)
            => { "find_checkboxes", "recheck" } \subseteq visited)
    /\ [][ (ResolverMoves /\ resolver_pc = "recheck" /\ raised' = raised)
             => clearance_cookie' = extract_clearance_cookie(browser_cookies) ]_vars

\* C19 as stated. Terminal outcome rule: a call that went through the
\* interaction returns the success dict if it holds the cookie and otherwise
\* the error dict with the fixed reason; no call that never read the cookie
\* returns the success dict.
C19_OutcomeRule ==
    /\ (resolver_pc = "returned" /\ "find_buttons" \in visited) =>
          IF clearance_cookie # None
          THEN Resolved("success")
          ELSE /\ Resolved("error")
               /\ resolver_result[1].reason = "Failed to retrieve cf_clearance cookie"
    /\ (resolver_pc = "returned" /\ clearance_cookie = None) => ~Resolved("success")

\* C19 as amended. The same rule when the user-agent read returns, on the
\* last cookie read the call made; when the user-agent read raises, the call
\* returns the error dict with that exception's description, cookie or not.
C19_OutcomeRuleUnlessRaised ==
    /\ (resolver_pc = "returned" /\ "find_buttons" \in visited) =>
          IF "get_user_agent" \in raised
          THEN /\ Resolved("error")
               /\ resolver_result[1].reason = Description("get_user_agent")
          ELSE IF clearance_cookie # None
          THEN /\ Resolved("success")
               /\ resolver_result[1].cf_clearance = clearance_cookie[1].value
          ELSE /\ Resolved("error")
               /\ resolver_result[1].reason = "Failed to retrieve cf_clearance cookie"
    /\ (resolver_pc = "returned" /\ clearance_cookie = None) => ~Resolved("success")

\* A call returned the success dict with the cookie its re-read found after
\* the interaction, and another outcome of the rule: the timeout passed, the
\* cookie came during the interaction.
C19_Witness ==
    /\ Resolved("success")
    /\ { "poll", "recheck" } \subseteq visited

\* C21. Success payload coherence: at every moment of the call
\* clearance_cookie is the cookie named cf_clearance of the list in
\* all_cookies (the two come from one read), and the success dict reports that
\* list and the value of that cookie, so its cf_clearance is the value of a
\* cookie named cf_clearance in its all_cookies.
C21_PayloadCoherence ==
    /\ all_cookies = None => clearance_cookie = None
    /\ all_cookies # None => clearance_cookie = extract_clearance_cookie(all_cookies[1])
    /\ Resolved("success") =>
          LET result == resolver_result[1]
          IN  /\ result.all_cookies = all_cookies[1]
              /\ \E i \in DOMAIN result.all_cookies :
                   /\ result.all_cookies[i].name = "cf_clearance"
                   /\ result.all_cookies[i].value = result.cf_clearance

\* The call returned the success dict of its re-read after the interaction,
\* and the browser has since been given a cookie of another value.
C21_Witness ==
    /\ Resolved("success")
    /\ "recheck" \in visited
    /\ extract_clearance_cookie(browser_cookies) # None
    /\ extract_clearance_cookie(browser_cookies)[1].value
          # resolver_result[1].cf_clearance

\* The tasks whose driver.start() returned and whose driver.stop() has not:
\* the resolver runs, or __aexit__ awaits the stop.
SessionsRunning ==
    { t \in TaskIds : pc[t] \in { "solve_cloudflare", "driver_stop" } }

\* C22. Browser session lifetime: a task whose browser was started stays in
\* active_solvers until its driver.stop() was awaited, whichever way the
\* resolver and the stop end, so the started and not yet stopped browsers are
\* never more than len(active_solvers); a task released holds no browser.
C22_SessionStoppedBeforeRelease ==
    /\ SessionsRunning \subseteq DOMAIN active_solvers
    /\ Cardinality(SessionsRunning) <= DictLen(active_solvers)
    /\ \A t \in TaskIds :
         t \notin DOMAIN active_solvers
            => pc[t] \in { "idle", "scheduled", "done", "raised" }

\* One task's browser is being stopped after its resolver returned and the
\* task still holds its slot; the browser of another was stopped and its slot
\* released, its success entry in place.
C22_Witness ==
    \E t \in TaskIds, u \in TaskIds :
        /\ pc[t] = "driver_stop" /\ t \in DOMAIN active_solvers
        /\ pc[u] = "done" /\ u \notin DOMAIN active_solvers
        /\ u \in DOMAIN task_results
        /\ task_results[u].status = "success"

====
